---- MODULE Spec2Model ----
(***************************************************************************)
(* Model of frontend/src/public/sketch1.cpp: a three-channel bio-signal    *)
(* acquisition sketch.  A hardware timer interrupt (timerCallback) samples *)
(* three ADC channels into a shared 10-byte packet buffer and raises       *)
(* bufferReady; the cooperative main loop (loop) transmits the buffer when *)
(* timerStatus and bufferReady are both set and interprets text commands.  *)
(*                                                                         *)
(* The interrupt runs to completion and is therefore one atomic action;    *)
(* the main loop is split at every point where the interrupt can preempt   *)
(* it with a visible effect: between the flag test and the copy, between   *)
(* any two bytes of the copy made by Serial.write, and between the copy    *)
(* and the clearing of bufferReady.                                        *)
(*                                                                         *)
(* Ticks are taken to fire once timerBegin has opened the timer.  The      *)
(* millisecond clock is advanced by separate steps of any of a few sizes;  *)
(* a long advance stands for a period in which the ticks that fired read   *)
(* nothing above a threshold.  sinceSwitch, ticks, switches, lastCtl,      *)
(* txSnap, outCount, elapses and hostSends are history variables: no code  *)
(* reads them.                                                             *)
(***************************************************************************)
EXTENDS Integers, Sequences, FiniteSets, TLC

\* ------------------------------------------------------------- configuration
NUM_CHANNELS == 3
HEADER_LEN == 3
PACKET_LEN == NUM_CHANNELS * 2 + HEADER_LEN + 1
SYNC_BYTE_1 == 171
SYNC_BYTE_2 == 205
END_BYTE == 239

\* ------------------------------------------------------------------- bounds
\* Ticks allowed in the interleaved system (Spec) and in the mode detector
\* system (SpecMode).
MaxTicks == 3
MaxModeTicks == 3
\* Ticks allowed in the tick-only system (SpecTicks): beyond one full wrap of
\* the 8-bit sequence byte.
MaxSeqTicks == 258
\* Clock advances allowed in Spec and in SpecMode.
MaxElapses == 1
MaxModeElapses == 4
\* Ticks and clock advances allowed in the command system (SpecCmd).
MaxCmdTicks == 1
MaxCmdElapses == 1
\* Chunks of input the host sends in one behaviour of Spec and of SpecCmd, and
\* the bytes that may wait in the receive buffer.
MaxHostSends == 3
MaxCmdSends == 2
MaxRx == 6
MaxCmdRx == 8
\* Ticks, chunks and waiting bytes in the spelling system (SpecLine).
MaxLineTicks == 1
MaxLineSends == 2
MaxLineRx == 10
\* Ticks, chunks and waiting bytes in the fair system (SpecLive).
MaxLiveTicks == 2
MaxLiveSends == 1
MaxLiveRx == 6

\* ------------------------------------------------------------------ integers
\* A uint32_t is held as two 16-bit halves <<high, low>>, so that the 32-bit
\* wraparound of the arithmetic is computed and not assumed away.
Half == 65536

\* The uint32_t with value n, for 0 <= n < 2^31.
U32(n) == <<(n \div Half) % Half, n % Half>>

\* a + b and a - b in uint32_t arithmetic (modulo 2^32).
Add32(a, b) ==
    LET lo == a[2] + b[2]
    IN  <<(a[1] + b[1] + (lo \div Half)) % Half, lo % Half>>

\* (a faulty subtraction first: it yields 0 when a is numerically below b)
Sub32Clamped(a, b) ==
    IF a[1] < b[1] \/ (a[1] = b[1] /\ a[2] < b[2])
    THEN <<0, 0>>
    ELSE <<a[1] - b[1] - (IF a[2] < b[2] THEN 1 ELSE 0), (a[2] - b[2] + Half) % Half>>

Sub32(a, b) ==
    LET borrow == IF a[2] < b[2] THEN 1 ELSE 0
    IN  <<(a[1] - b[1] - borrow + 2 * Half) % Half, (a[2] - b[2] + Half) % Half>>

\* a < n for a uint32_t a and a constant 0 <= n < 2^16.
Less32(a, n) == a[1] = 0 /\ a[2] < n

\* highByte / lowByte of a uint16_t.
highByte(v) == (v \div 256) % 256
lowByte(v) == v % 256

\* (hi << 8) | lo as a uint16_t.
word(hi, lo) == (hi * 256 + lo) % 65536

\* --------------------------------------------------------------------- state
VARIABLES
    packetBuffer,   \* uint8_t packetBuffer[PACKET_LEN], indexed 0..PACKET_LEN-1
    bufferReady,    \* bool bufferReady
    timerStatus,    \* bool timerStatus
    dashboardMode,  \* uint8_t dashboardMode: 0=EMG, 1=EEG, 2=EOG
    lastSwitch,     \* static uint32_t lastSwitch of detectGesture
    timerOpen,      \* BioTimer has been opened with timerCallback attached
    clock,          \* the value millis() returns: milliseconds since boot mod 2^32
    sinceSwitch,    \* wall-clock ms since lastSwitch was last assigned, capped at 500
    elapses,        \* clock advances so far
    pc,             \* position of the main context
    tx,             \* bytes Serial.write has copied so far in the current call
    txSnap,         \* packetBuffer as it was when the sequence byte was copied
    rx,             \* bytes waiting in the serial receive buffer
    cmd,            \* characters readStringUntil has collected so far
    outLast,        \* the most recent completed write to the serial output
    outCount,       \* number of completed writes to the serial output
    lastCtl,        \* the most recently processed START/STOP command
    hostSends,      \* chunks the host has sent
    ticks,          \* completed invocations of timerCallback
    switches,       \* assignments made to lastSwitch by detectGesture
    lastSent        \* whether a tick has completed since the most recent
                    \* packet write completed: "nopacket" before the first
                    \* write, then "noticks" or "ticked"

vars == <<packetBuffer, bufferReady, timerStatus, dashboardMode, lastSwitch,
          timerOpen, clock, sinceSwitch, elapses, pc, tx, txSnap, rx, cmd,
          outLast, outCount, lastCtl, hostSends, ticks, switches, lastSent>>

Indices == 0 .. (PACKET_LEN - 1)

NoOutput == [kind |-> "none", data |-> <<>>]
Line(s) == [kind |-> "line", data |-> <<s>>]
Packet(bytes) == [kind |-> "packet", data |-> bytes]
NoPacket == "nopacket"

\* ------------------------------------------------------------- mode detector
\* detectGesture(emg, eeg, eog).  t1 is the value millis() returns in the
\* debounce test and t2 the value it returns in the assignment that follows.
\* The result is dashboardMode and lastSwitch after the call, and whether the
\* call assigned them.
\* Two faulty variants, against which the properties are tested: the EEG test
\* placed before the EMG test, and the debounce test left out.
detectGestureSwapped(mode, last, emg, eeg, eog, t1, t2) ==
    IF Less32(Sub32(t1, last), 500)
    THEN [dashboardMode |-> mode, lastSwitch |-> last, assigned |-> FALSE]
    ELSE IF eeg > 11000
    THEN [dashboardMode |-> 1, lastSwitch |-> t2, assigned |-> TRUE]
    ELSE IF emg > 12000
    THEN [dashboardMode |-> 0, lastSwitch |-> t2, assigned |-> TRUE]
    ELSE IF eog > 10000
    THEN [dashboardMode |-> 2, lastSwitch |-> t2, assigned |-> TRUE]
    ELSE [dashboardMode |-> mode, lastSwitch |-> last, assigned |-> FALSE]

detectGestureNoDebounce(mode, last, emg, eeg, eog, t1, t2) ==
    IF emg > 12000
    THEN [dashboardMode |-> 0, lastSwitch |-> t2, assigned |-> TRUE]
    ELSE IF eeg > 11000
    THEN [dashboardMode |-> 1, lastSwitch |-> t2, assigned |-> TRUE]
    ELSE IF eog > 10000
    THEN [dashboardMode |-> 2, lastSwitch |-> t2, assigned |-> TRUE]
    ELSE [dashboardMode |-> mode, lastSwitch |-> last, assigned |-> FALSE]

detectGestureOnChange(mode, last, emg, eeg, eog, t1, t2) ==
    LET sel == IF emg > 12000 THEN 0
               ELSE IF eeg > 11000 THEN 1
               ELSE IF eog > 10000 THEN 2
               ELSE mode
    IN  IF Less32(Sub32(t1, last), 500) \/ sel = mode
        THEN [dashboardMode |-> mode, lastSwitch |-> last, assigned |-> FALSE]
        ELSE [dashboardMode |-> sel, lastSwitch |-> t2, assigned |-> TRUE]

detectGestureEarly(mode, last, emg, eeg, eog, t1, t2) ==
    IF Less32(Sub32(t1, last), 499)
    THEN [dashboardMode |-> mode, lastSwitch |-> last, assigned |-> FALSE]
    ELSE IF emg > 12000
    THEN [dashboardMode |-> 0, lastSwitch |-> t2, assigned |-> TRUE]
    ELSE IF eeg > 11000
    THEN [dashboardMode |-> 1, lastSwitch |-> t2, assigned |-> TRUE]
    ELSE IF eog > 10000
    THEN [dashboardMode |-> 2, lastSwitch |-> t2, assigned |-> TRUE]
    ELSE [dashboardMode |-> mode, lastSwitch |-> last, assigned |-> FALSE]

\* detectGesture as written.
detectGesture(mode, last, emg, eeg, eog, t1, t2) ==
    IF Less32(Sub32(t1, last), 500)
    THEN [dashboardMode |-> mode, lastSwitch |-> last, assigned |-> FALSE]
    ELSE IF emg > 12000
    THEN [dashboardMode |-> 0, lastSwitch |-> t2, assigned |-> TRUE]
    ELSE IF eeg > 11000
    THEN [dashboardMode |-> 1, lastSwitch |-> t2, assigned |-> TRUE]
    ELSE IF eog > 10000
    THEN [dashboardMode |-> 2, lastSwitch |-> t2, assigned |-> TRUE]
    ELSE [dashboardMode |-> mode, lastSwitch |-> last, assigned |-> FALSE]

\* ------------------------------------------------------------ timer callback
\* The sampling loop of timerCallback: channel ch's reading goes, big-endian,
\* to bytes 2*ch+HEADER_LEN and 2*ch+HEADER_LEN+1; adc[ch + 1] is analogRead(ch).
sampleChannels(buf, adc) ==
    [i \in Indices |->
        IF i >= HEADER_LEN /\ i < HEADER_LEN + 2 * NUM_CHANNELS
        THEN IF (i - HEADER_LEN) % 2 = 0
             THEN highByte(adc[(i - HEADER_LEN) \div 2 + 1] % 65536)
             ELSE lowByte(adc[(i - HEADER_LEN) \div 2 + 1] % 65536)
        ELSE buf[i]]

\* The state the interrupt reads and writes, as a record.
IsrView == [packetBuffer |-> packetBuffer, bufferReady |-> bufferReady,
            timerStatus |-> timerStatus, dashboardMode |-> dashboardMode,
            lastSwitch |-> lastSwitch, switches |-> switches]

\* The part of timerCallback after its sampling loop, on the buffer buf the
\* loop has filled: the three samples are read back from the buffer and given
\* to detectGesture, the sequence byte is incremented as a uint8_t and
\* bufferReady is set.  Four faulty variants come first: one that does
\* nothing while timerStatus is false, one whose sequence byte skips 0, one
\* that also overwrites the end byte, and one that leaves bufferReady alone.
frameGated(s, buf, t1, t2) ==
    LET g == detectGesture(s.dashboardMode, s.lastSwitch,
                           word(buf[3], buf[4]), word(buf[5], buf[6]),
                           word(buf[7], buf[8]), t1, t2)
    IN  IF s.timerStatus
        THEN [s EXCEPT !.packetBuffer = [buf EXCEPT ![2] = (buf[2] + 1) % 256],
                       !.dashboardMode = g.dashboardMode,
                       !.lastSwitch = g.lastSwitch,
                       !.switches = s.switches + (IF g.assigned THEN 1 ELSE 0),
                       !.bufferReady = TRUE]
        ELSE s

frameSeqSkip(s, buf, t1, t2) ==
    LET g == detectGesture(s.dashboardMode, s.lastSwitch,
                           word(buf[3], buf[4]), word(buf[5], buf[6]),
                           word(buf[7], buf[8]), t1, t2)
    IN  [s EXCEPT !.packetBuffer =
                      [buf EXCEPT ![2] = IF buf[2] = 255 THEN 1 ELSE buf[2] + 1],
                  !.dashboardMode = g.dashboardMode,
                  !.lastSwitch = g.lastSwitch,
                  !.switches = s.switches + (IF g.assigned THEN 1 ELSE 0),
                  !.bufferReady = TRUE]

frameClobber(s, buf, t1, t2) ==
    LET g == detectGesture(s.dashboardMode, s.lastSwitch,
                           word(buf[3], buf[4]), word(buf[5], buf[6]),
                           word(buf[7], buf[8]), t1, t2)
    IN  [s EXCEPT !.packetBuffer =
                      [buf EXCEPT ![2] = (buf[2] + 1) % 256,
                                  ![PACKET_LEN - 1] = buf[PACKET_LEN - 2]],
                  !.dashboardMode = g.dashboardMode,
                  !.lastSwitch = g.lastSwitch,
                  !.switches = s.switches + (IF g.assigned THEN 1 ELSE 0),
                  !.bufferReady = TRUE]

frameNoFlag(s, buf, t1, t2) ==
    LET g == detectGesture(s.dashboardMode, s.lastSwitch,
                           word(buf[3], buf[4]), word(buf[5], buf[6]),
                           word(buf[7], buf[8]), t1, t2)
    IN  [s EXCEPT !.packetBuffer = [buf EXCEPT ![2] = (buf[2] + 1) % 256],
                  !.dashboardMode = g.dashboardMode,
                  !.lastSwitch = g.lastSwitch,
                  !.switches = s.switches + (IF g.assigned THEN 1 ELSE 0)]

frame(s, buf, t1, t2) ==
    LET g == detectGesture(s.dashboardMode, s.lastSwitch,
                           word(buf[3], buf[4]), word(buf[5], buf[6]),
                           word(buf[7], buf[8]), t1, t2)
    IN  [s EXCEPT !.packetBuffer = [buf EXCEPT ![2] = (buf[2] + 1) % 256],
                  !.dashboardMode = g.dashboardMode,
                  !.lastSwitch = g.lastSwitch,
                  !.switches = s.switches + (IF g.assigned THEN 1 ELSE 0),
                  !.bufferReady = TRUE]

\* timerCallback as a function of the state s it finds, the three readings adc,
\* and the two clock values t1, t2 its call of detectGesture obtains.
timerCallback(s, adc, t1, t2) ==
    frame(s, sampleChannels(s.packetBuffer, adc), t1, t2)

\* Wall-clock time since the last assignment of lastSwitch after d more
\* milliseconds (d a uint32_t), capped at the debounce time.
Later(since, d) ==
    IF d[1] > 0 \/ d[2] >= 500 - since THEN 500 ELSE since + d[2]

\* One timer interrupt: timerCallback runs to completion with readings adc
\* while the millisecond clock advances by drift between the two millis() calls
\* of detectGesture.
Tick(adc, drift) ==
    /\ timerOpen
    /\ pc # "setup"
    /\ LET r == timerCallback(IsrView, adc, clock, Add32(clock, U32(drift)))
       IN  /\ packetBuffer' = r.packetBuffer
           /\ bufferReady' = r.bufferReady
           /\ dashboardMode' = r.dashboardMode
           /\ lastSwitch' = r.lastSwitch
           /\ timerStatus' = r.timerStatus
           /\ switches' = r.switches
           /\ sinceSwitch' = IF r.switches # switches THEN 0
                             ELSE Later(sinceSwitch, U32(drift))
    /\ clock' = Add32(clock, U32(drift))
    /\ ticks' = ticks + 1
    /\ lastSent' = IF lastSent = NoPacket THEN NoPacket ELSE "ticked"
    /\ UNCHANGED <<timerOpen, elapses, pc, tx, txSnap, rx, cmd, outLast,
                   outCount, lastCtl, hostSends>>

\* The millisecond clock advances by d (a uint32_t) while nothing else happens.
Elapse(d) ==
    /\ clock' = Add32(clock, d)
    /\ sinceSwitch' = Later(sinceSwitch, d)
    /\ elapses' = elapses + 1
    /\ UNCHANGED <<packetBuffer, bufferReady, timerStatus, dashboardMode,
                   lastSwitch, timerOpen, pc, tx, txSnap, rx, cmd, outLast,
                   outCount, lastCtl, hostSends, ticks, switches,
                   lastSent>>

\* --------------------------------------------------------------------- setup
\* FspTimer::get_available_timer: a free GPT channel, or -1 when there is none.
TimerChannels == {-1, 0}

\* timerBegin(rate): TRUE iff a channel was found and the timer was opened.
timerBegin(ch) == ch # -1

Init ==
    /\ packetBuffer = [i \in Indices |-> 0]
    /\ bufferReady = FALSE
    /\ timerStatus = FALSE
    /\ dashboardMode = 0
    /\ lastSwitch = U32(0)
    /\ timerOpen = FALSE
    /\ clock = U32(0)
    /\ sinceSwitch = 0
    /\ elapses = 0
    /\ pc = "setup"
    /\ tx = <<>>
    /\ txSnap = [i \in Indices |-> 0]
    /\ rx = <<>>
    /\ cmd = <<>>
    /\ outLast = NoOutput
    /\ outCount = 0
    /\ lastCtl = "none"
    /\ hostSends = 0
    /\ ticks = 0
    /\ switches = 0
    /\ lastSent = NoPacket

\* setup(): frames the constant bytes, tries to start the timer (the result of
\* timerBegin is discarded) and prints the five banner lines.
Setup ==
    /\ pc = "setup"
    /\ packetBuffer' = [packetBuffer EXCEPT ![0] = SYNC_BYTE_1,
                                            ![1] = SYNC_BYTE_2,
                                            ![2] = 0,
                                            ![PACKET_LEN - 1] = END_BYTE]
    /\ \E ch \in TimerChannels : timerOpen' = timerBegin(ch)
    /\ outLast' = Line("===========================")
    /\ outCount' = outCount + 5
    /\ pc' = "loop"
    /\ UNCHANGED <<bufferReady, timerStatus, dashboardMode, lastSwitch, clock,
                   sinceSwitch, elapses, tx,
                   txSnap, rx, cmd, lastCtl, hostSends, ticks, switches,
                   lastSent>>

\* ------------------------------------------------------------------- inputs
\* analogRead at 14-bit resolution; the readings sit on and next to the three
\* thresholds of detectGesture, and at the two ends of the converter's range.
Readings ==
    { <<12001, 11001, 10001>>, <<12000, 11001, 10001>>,
      <<12000, 11000, 10001>>, <<12000, 11000, 10000>>,
      <<0, 0, 0>>, <<16383, 16383, 16383>> }

\* The two of them used where the main loop is interleaved: one selects EMG,
\* the other EEG.
TwoReadings == { <<12001, 11001, 10001>>, <<12000, 11001, 10001>> }

\* ---------------------------------------------------------------- commands
LowerCase == <<"a", "b", "c", "d", "e", "f", "g", "h", "i", "j", "k", "l", "m",
               "n", "o", "p", "q", "r", "s", "t", "u", "v", "w", "x", "y", "z">>
UpperCase == <<"A", "B", "C", "D", "E", "F", "G", "H", "I", "J", "K", "L", "M",
               "N", "O", "P", "Q", "R", "S", "T", "U", "V", "W", "X", "Y", "Z">>

\* isspace and toupper of the C library, on one character.
isSpace(ch) == ch \in {" ", "\t", "\n", "\r", "\f"}
toUpper(ch) ==
    IF \E i \in 1 .. 26 : LowerCase[i] = ch
    THEN UpperCase[CHOOSE i \in 1 .. 26 : LowerCase[i] = ch]
    ELSE ch

\* String::trim(): the string without its leading and trailing white space
\* (and a faulty variant that strips the leading white space only).
trimLeading(str) ==
    LET keep == {i \in 1 .. Len(str) : ~isSpace(str[i])}
    IN  IF keep = {} THEN <<>>
        ELSE SubSeq(str, CHOOSE i \in keep : \A j \in keep : i <= j, Len(str))

trim(str) ==
    LET keep == {i \in 1 .. Len(str) : ~isSpace(str[i])}
    IN  IF keep = {} THEN <<>>
        ELSE SubSeq(str, CHOOSE i \in keep : \A j \in keep : i <= j,
                         CHOOSE i \in keep : \A j \in keep : i >= j)

\* String::toUpperCase().
toUpperCase(str) == [i \in 1 .. Len(str) |-> toUpper(str[i])]

START == <<"S", "T", "A", "R", "T">>
STOP == <<"S", "T", "O", "P">>
MODE == <<"M", "O", "D", "E">>
STATUS == <<"S", "T", "A", "T", "U", "S">>

\* updateDashboard(): the line printed for mode, if any.
updateDashboard(mode) ==
    IF mode = 0 THEN Line("[MODE] EMG Graph")
    ELSE IF mode = 1 THEN Line("[MODE] EEG Graph")
    ELSE IF mode = 2 THEN Line("[MODE] EOG Blink")
    ELSE NoOutput

\* processCommand(c) when timerStatus = enabled and dashboardMode = mode: the
\* new timerStatus, the line printed (NoOutput when nothing is printed) and
\* the START/STOP command recognised, if any.
\* Faulty variants come first: STOP acknowledged without clearing
\* timerStatus, an unknown line answered with an error line, and STATUS
\* answering with the two words exchanged.
processCommandStopIgnored(c, enabled, mode) ==
    LET n == toUpperCase(trim(c))
    IN  IF n = START
        THEN [timerStatus |-> TRUE, out |-> Line("ACQ STARTED"), ctl |-> "START"]
        ELSE IF n = STOP
        THEN [timerStatus |-> enabled, out |-> Line("ACQ STOPPED"), ctl |-> "STOP"]
        ELSE IF n = MODE
        THEN [timerStatus |-> enabled, out |-> updateDashboard(mode), ctl |-> "none"]
        ELSE IF n = STATUS
        THEN [timerStatus |-> enabled,
              out |-> Line(IF enabled THEN "RUNNING" ELSE "STOPPED"), ctl |-> "none"]
        ELSE [timerStatus |-> enabled, out |-> NoOutput, ctl |-> "none"]

processCommandNak(c, enabled, mode) ==
    LET n == toUpperCase(trim(c))
    IN  IF n = START
        THEN [timerStatus |-> TRUE, out |-> Line("ACQ STARTED"), ctl |-> "START"]
        ELSE IF n = STOP
        THEN [timerStatus |-> FALSE, out |-> Line("ACQ STOPPED"), ctl |-> "STOP"]
        ELSE IF n = MODE
        THEN [timerStatus |-> enabled, out |-> updateDashboard(mode), ctl |-> "none"]
        ELSE IF n = STATUS
        THEN [timerStatus |-> enabled,
              out |-> Line(IF enabled THEN "RUNNING" ELSE "STOPPED"), ctl |-> "none"]
        ELSE [timerStatus |-> enabled, out |-> Line("ERR"), ctl |-> "none"]

processCommandStatusFlipped(c, enabled, mode) ==
    LET n == toUpperCase(trim(c))
    IN  IF n = START
        THEN [timerStatus |-> TRUE, out |-> Line("ACQ STARTED"), ctl |-> "START"]
        ELSE IF n = STOP
        THEN [timerStatus |-> FALSE, out |-> Line("ACQ STOPPED"), ctl |-> "STOP"]
        ELSE IF n = MODE
        THEN [timerStatus |-> enabled, out |-> updateDashboard(mode), ctl |-> "none"]
        ELSE IF n = STATUS
        THEN [timerStatus |-> enabled,
              out |-> Line(IF enabled THEN "STOPPED" ELSE "RUNNING"), ctl |-> "none"]
        ELSE [timerStatus |-> enabled, out |-> NoOutput, ctl |-> "none"]

processCommand(c, enabled, mode) ==
    LET n == toUpperCase(trim(c))
    IN  IF n = START
        THEN [timerStatus |-> TRUE, out |-> Line("ACQ STARTED"), ctl |-> "START"]
        ELSE IF n = STOP
        THEN [timerStatus |-> FALSE, out |-> Line("ACQ STOPPED"), ctl |-> "STOP"]
        ELSE IF n = MODE
        THEN [timerStatus |-> enabled, out |-> updateDashboard(mode), ctl |-> "none"]
        ELSE IF n = STATUS
        THEN [timerStatus |-> enabled,
              out |-> Line(IF enabled THEN "RUNNING" ELSE "STOPPED"), ctl |-> "none"]
        ELSE [timerStatus |-> enabled, out |-> NoOutput, ctl |-> "none"]

\* The main context calls processCommand(line).
RunCommand(line) ==
    LET r == processCommand(line, timerStatus, dashboardMode)
    IN  /\ timerStatus' = r.timerStatus
        /\ outLast' = IF r.out.kind = "none" THEN outLast ELSE r.out
        /\ outCount' = IF r.out.kind = "none" THEN outCount ELSE outCount + 1
        /\ lastCtl' = IF r.ctl = "none" THEN lastCtl ELSE r.ctl

\* ---------------------------------------------------------------- main loop
AsSeq(buf) == [i \in 1 .. PACKET_LEN |-> buf[i - 1]]

\* loop(), the test timerStatus && bufferReady (and a faulty variant that
\* forgets timerStatus).
loopTestUngated(enabled, ready) == ready

loopTest(enabled, ready) == enabled /\ ready

LoopTest ==
    /\ pc = "loop"
    /\ IF loopTest(timerStatus, bufferReady)
       THEN pc' = "send" /\ tx' = <<>>
       ELSE pc' = "serial" /\ tx' = tx
    /\ UNCHANGED <<packetBuffer, bufferReady, timerStatus, dashboardMode,
                   lastSwitch, timerOpen, clock, sinceSwitch, elapses, txSnap,
                   rx, cmd, outLast, outCount, lastCtl, hostSends, ticks, switches,
                   lastSent>>

\* sendPacket(): Serial.write(packetBuffer, PACKET_LEN) copies the buffer one
\* byte at a time, in index order, with interrupts enabled; the write is
\* complete when the last byte has been copied.
SendByte ==
    /\ pc = "send"
    /\ Len(tx) < PACKET_LEN
    /\ tx' = Append(tx, packetBuffer[Len(tx)])
    /\ txSnap' = IF Len(tx) = 2 THEN packetBuffer ELSE txSnap
    /\ IF Len(tx') = PACKET_LEN
       THEN /\ outLast' = Packet(tx')
            /\ outCount' = outCount + 1
            /\ lastSent' = "noticks"
            /\ pc' = "clear"
       ELSE UNCHANGED <<outLast, outCount, lastSent, pc>>
    /\ UNCHANGED <<packetBuffer, bufferReady, timerStatus, dashboardMode,
                   lastSwitch, timerOpen, clock, sinceSwitch, elapses, rx, cmd,
                   lastCtl, hostSends, ticks, switches>>

\* loop(), bufferReady = false after sendPacket() has returned (and a faulty
\* variant that leaves the flag set).
ClearReadyKept ==
    /\ pc = "clear"
    /\ pc' = "serial"
    /\ UNCHANGED <<packetBuffer, bufferReady, timerStatus, dashboardMode,
                   lastSwitch, timerOpen, clock, sinceSwitch, elapses, tx,
                   txSnap, rx, cmd, outLast, outCount, lastCtl, hostSends,
                   ticks, switches, lastSent>>

ClearReady ==
    /\ pc = "clear"
    /\ bufferReady' = FALSE
    /\ pc' = "serial"
    /\ UNCHANGED <<packetBuffer, timerStatus, dashboardMode, lastSwitch,
                   timerOpen, clock, sinceSwitch, elapses, tx, txSnap, rx, cmd,
                   outLast, outCount, lastCtl, hostSends, ticks, switches,
                   lastSent>>

\* loop(), the test Serial.available(): with nothing received the iteration
\* ends, otherwise readStringUntil('\n') starts with an empty string.
PollSerial ==
    /\ pc = "serial"
    /\ IF rx = <<>> THEN pc' = "loop" ELSE pc' = "read"
    /\ cmd' = <<>>
    /\ UNCHANGED <<packetBuffer, bufferReady, timerStatus, dashboardMode,
                   lastSwitch, timerOpen, clock, sinceSwitch, elapses, tx,
                   txSnap, rx, outLast, outCount, lastCtl, hostSends, ticks, switches,
                   lastSent>>

\* readStringUntil('\n') with bytes available: it takes the bytes up to the
\* first terminator, drops the terminator and returns, and processCommand
\* runs on the result; with no terminator among them it takes them all and
\* goes on waiting.
ReadLine ==
    /\ pc = "read"
    /\ rx # <<>>
    /\ IF \E k \in 1 .. Len(rx) : rx[k] = "\n"
       THEN LET k == CHOOSE i \in 1 .. Len(rx) :
                         rx[i] = "\n" /\ \A j \in 1 .. (i - 1) : rx[j] # "\n"
            IN  /\ RunCommand(cmd \o SubSeq(rx, 1, k - 1))
                /\ rx' = SubSeq(rx, k + 1, Len(rx))
                /\ cmd' = <<>>
                /\ pc' = "loop"
       ELSE /\ cmd' = cmd \o rx
            /\ rx' = <<>>
            /\ UNCHANGED <<timerStatus, outLast, outCount, lastCtl, pc>>
    /\ UNCHANGED <<packetBuffer, bufferReady, dashboardMode, lastSwitch,
                   timerOpen, clock, sinceSwitch, elapses, tx, txSnap,
                   hostSends, ticks, switches,
                   lastSent>>

\* readStringUntil('\n') with nothing more received for the stream's timeout
\* of 1000 ms: it returns what it has collected, and processCommand runs on it.
ReadTimeout ==
    /\ pc = "read"
    /\ rx = <<>>
    /\ RunCommand(cmd)
    /\ cmd' = <<>>
    /\ pc' = "loop"
    /\ clock' = Add32(clock, U32(1000))
    /\ sinceSwitch' = Later(sinceSwitch, U32(1000))
    /\ UNCHANGED <<packetBuffer, bufferReady, dashboardMode, lastSwitch,
                   timerOpen, elapses, tx, txSnap, rx, hostSends, ticks, switches,
                   lastSent>>

\* The host sends the bytes of chunk.
HostSend(chunk) ==
    /\ rx' = rx \o chunk
    /\ hostSends' = hostSends + 1
    /\ UNCHANGED <<packetBuffer, bufferReady, timerStatus, dashboardMode,
                   lastSwitch, timerOpen, clock, sinceSwitch, elapses, pc, tx,
                   txSnap, cmd, outLast, outCount, lastCtl, ticks, switches,
                   lastSent>>

\* What the host sends in Spec: the two commands that gate transmission, and
\* STOP with no line terminator after it.
CtlChunks == { START \o <<"\n">>, STOP \o <<"\n">>, STOP }

\* What the host sends in SpecCmd: the four commands, one of them in lower case
\* between blanks with a CR LF ending, an unknown word, and a word with no
\* terminator.
Chunks ==
    { START \o <<"\n">>, STOP \o <<"\n">>, MODE \o <<"\n">>,
      STATUS \o <<"\n">>, <<"F", "O", "O", "\n">>,
      <<" ", "s", "t", "o", "p", " ", "\r", "\n">>, <<"S", "T", "A", "R">> }

\* Clock advances: a full debounce time in Spec; in SpecMode also one
\* millisecond, one millisecond short of the debounce time, and 2^32 - 500 ms,
\* which takes the clock to its wraparound.
CoarseSteps == { U32(500) }
FineSteps == { U32(1), U32(499), U32(500), <<65535, 65036>> }

\* The second millis() call of detectGesture may see the clock one tick later.
Drifts == {0, 1}

\* ---------------------------------------------------------- tick-only system
NextTicks ==
    \/ Setup
    \/ \E adc \in Readings : ticks < MaxSeqTicks /\ Tick(adc, 0)

SpecTicks == Init /\ [][NextTicks]_vars

\* ------------------------------------------------------ mode detector system
NextMode ==
    \/ Setup
    \/ \E adc \in Readings, drift \in Drifts :
           ticks < MaxModeTicks /\ Tick(adc, drift)
    \/ \E d \in FineSteps : elapses < MaxModeElapses /\ Elapse(d)

SpecMode == Init /\ [][NextMode]_vars

\* --------------------------------------------------------- interleaved system
MainLoop ==
    \/ LoopTest
    \/ SendByte
    \/ ClearReady
    \/ PollSerial
    \/ ReadLine
    \/ ReadTimeout

Next ==
    \/ Setup
    \/ \E adc \in TwoReadings : ticks < MaxTicks /\ Tick(adc, 0)
    \/ \E d \in CoarseSteps : elapses < MaxElapses /\ Elapse(d)
    \/ MainLoop
    \/ \E chunk \in CtlChunks :
           /\ hostSends < MaxHostSends
           /\ Len(rx) + Len(chunk) <= MaxRx
           /\ HostSend(chunk)

Spec == Init /\ [][Next]_vars

\* ------------------------------------------------------------ command system
NextCmd ==
    \/ Setup
    \/ \E adc \in TwoReadings : ticks < MaxCmdTicks /\ Tick(adc, 0)
    \/ \E d \in CoarseSteps : elapses < MaxCmdElapses /\ Elapse(d)
    \/ MainLoop
    \/ \E chunk \in Chunks :
           /\ hostSends < MaxCmdSends
           /\ Len(rx) + Len(chunk) <= MaxCmdRx
           /\ HostSend(chunk)

SpecCmd == Init /\ [][NextCmd]_vars

\* ===================================================================== claims
\* ----------------------------------------------------------- spelling system
\* The spellings of a command word the host may use: as it is, in lower case,
\* and with only its first letter in upper case; each between nothing, blanks,
\* a tab or a carriage return.
toLower(ch) ==
    IF \E i \in 1 .. 26 : UpperCase[i] = ch
    THEN LowerCase[CHOOSE i \in 1 .. 26 : UpperCase[i] = ch]
    ELSE ch

Spellings(w) ==
    { w, [i \in 1 .. Len(w) |-> toLower(w[i])],
      [i \in 1 .. Len(w) |-> IF i = 1 THEN w[i] ELSE toLower(w[i])] }

LeadPads == { <<>>, <<" ">>, <<"\t", " ">> }
TrailPads == { <<>>, <<" ">>, <<"\r">> }

Decorated(w) ==
    { pre \o s \o post : pre \in LeadPads, s \in Spellings(w), post \in TrailPads }

\* What the host sends in SpecLine: every decorated spelling of the four
\* commands other than the plain word itself, each ended by a line feed, and
\* one lower-case word with no terminator.
LineChunks ==
    { v \o <<"\n">> : v \in UNION { Decorated(w) \ {w} :
                                      w \in {START, STOP, MODE, STATUS} } }
    \cup { [i \in 1 .. Len(STATUS) |-> toLower(STATUS[i])] }

NextLine ==
    \/ Setup
    \/ \E adc \in TwoReadings : ticks < MaxLineTicks /\ Tick(adc, 0)
    \/ MainLoop
    \/ \E chunk \in LineChunks :
           /\ hostSends < MaxLineSends
           /\ Len(rx) + Len(chunk) <= MaxLineRx
           /\ HostSend(chunk)

SpecLine == Init /\ [][NextLine]_vars

\* --------------------------------------------------------------- fair system
\* The interleaved system without clock advances, under the scheduling the
\* hardware gives: the timer interrupt fires again and again (while the tick
\* bound allows), and loop() is called again and again, each of its calls
\* returning (readStringUntil returns on its timeout at the latest).
TickLive == \E adc \in TwoReadings : ticks < MaxLiveTicks /\ Tick(adc, 0)

NextLive ==
    \/ Setup
    \/ TickLive
    \/ MainLoop
    \/ \E chunk \in CtlChunks :
           /\ hostSends < MaxLiveSends
           /\ Len(rx) + Len(chunk) <= MaxLiveRx
           /\ HostSend(chunk)

SpecLive ==
    Init /\ [][NextLive]_vars /\ WF_vars(TickLive) /\ WF_vars(MainLoop)

\* Steps and values the properties speak of.
TickStep == ticks' = ticks + 1
PacketWrite == outCount' = outCount + 1 /\ outLast'.kind = "packet"
CommandStep == pc = "read" /\ pc' = "loop"

\* The line readStringUntil returns in a CommandStep.
LineRead ==
    IF \E k \in 1 .. Len(rx) : rx[k] = "\n"
    THEN cmd \o SubSeq(rx, 1, (CHOOSE i \in 1 .. Len(rx) :
                   rx[i] = "\n" /\ \A j \in 1 .. (i - 1) : rx[j] # "\n") - 1)
    ELSE cmd

\* The three samples a buffer carries, decoded big-endian.
Emg(buf) == buf[3] * 256 + buf[4]
Eeg(buf) == buf[5] * 256 + buf[6]
Eog(buf) == buf[7] * 256 + buf[8]

\* The debounce time has passed on the 32-bit millisecond clock.
DebounceElapsed == ~Less32(Sub32(clock, lastSwitch), 500)

\* ------------------------------------------------------------------------ C1
FramingBytes ==
    /\ DOMAIN packetBuffer = 0 .. 9
    /\ packetBuffer[0] = 171
    /\ packetBuffer[1] = 205
    /\ packetBuffer[9] = 239

\* C1: in every state after setup the packet buffer has 10 bytes, byte 0 is
\* 0xAB, byte 1 is 0xCD and byte 9 is 0xEF, whatever ticks, transmissions and
\* commands have happened; and a tick leaves every byte outside 2..8 as it was.
C1_Framing ==
    /\ [](pc # "setup" => FramingBytes)
    /\ [][TickStep => \A i \in (0 .. 9) \ (2 .. 8) :
                          packetBuffer'[i] = packetBuffer[i]]_vars

C1_Witness ==
    /\ ticks >= 2
    /\ Emg(packetBuffer) = 12000
    /\ outLast.kind = "packet"
    /\ outLast.data[3] = 1
    /\ packetBuffer[2] = 3

\* ------------------------------------------------------------------------ C2
\* C2: the sequence byte equals the number of completed ticks modulo 256, and
\* every tick takes it from s to (s + 1) mod 256, so that 255 is followed by 0
\* and no value is skipped or repeated.
C2_Sequence ==
    /\ [](pc # "setup" => packetBuffer[2] = ticks % 256)
    /\ [][TickStep => packetBuffer'[2] = (packetBuffer[2] + 1) % 256]_vars

C2_Witness == ticks = 257 /\ packetBuffer[2] = 1

\* ------------------------------------------------------------------------ C3
\* C3: every packet written to the output is the sequence byte and the three
\* samples of one completed tick: when a write completes, its ten bytes are the
\* buffer as it stood when the sequence byte was copied.
C3_NoTornPacket ==
    pc = "clear" => outLast.kind = "packet" /\ outLast.data = AsSeq(txSnap)

\* ------------------------------------------------------------------------ C4
\* C4: a packet is written only by an iteration of the main loop that found
\* timerStatus and bufferReady both true, and as one write of all 10 bytes
\* that runs to its end; the main loop clears bufferReady only right after
\* such a write; an iteration that finds either flag false goes on to the
\* command input, writing nothing and leaving bufferReady alone.
C4_Transmit ==
    /\ [][PacketWrite =>
            /\ pc = "send" /\ timerStatus /\ bufferReady
            /\ Len(outLast'.data) = 10]_vars
    /\ [][pc' = "send" /\ pc # "send" =>
            pc = "loop" /\ timerStatus /\ bufferReady /\ tx' = <<>>]_vars
    /\ [][pc = "send" => pc' \in {"send", "clear"}]_vars
    /\ [][bufferReady /\ ~bufferReady' =>
            pc = "clear" /\ outLast.kind = "packet" /\ outLast.data = tx]_vars
    /\ [][pc = "loop" /\ pc' # "loop" /\ ~(timerStatus /\ bufferReady) =>
            /\ pc' = "serial"
            /\ UNCHANGED <<bufferReady, outLast, outCount>>]_vars
    /\ [][pc = "serial" => pc' \in {"serial", "read", "loop"}]_vars
    /\ [][pc = "read" => pc' \in {"read", "loop"}]_vars

C4_Witness ==
    /\ pc = "serial"
    /\ timerStatus
    /\ ~bufferReady
    /\ outLast.kind = "packet"
    /\ outLast.data = AsSeq(packetBuffer)

\* ------------------------------------------------------------------------ C5
\* C5: a packet is written only while the most recently processed START/STOP
\* command is START: none after a STOP until the next START, and none before
\* the first START.
C5_StopSilences == [][PacketWrite => lastCtl = "START"]_vars

C5_Witness ==
    /\ lastCtl = "STOP"
    /\ ~timerStatus
    /\ outLast = Line("ACQ STOPPED")
    /\ outCount >= 8
    /\ bufferReady
    /\ pc = "serial"

\* ------------------------------------------------------------------------ C6
\* C6: when setup found no free timer channel, START is not answered as a
\* successful start, acquisition is not enabled and STATUS does not report it
\* as running.
C6_NoSilentStart ==
    (pc # "setup" /\ ~timerOpen) =>
        /\ ~timerStatus
        /\ outLast # Line("ACQ STARTED")
        /\ outLast # Line("RUNNING")

\* ------------------------------------------------------------------------ C7
\* What timerCallback would do in the current state if timerStatus were e.
TickIf(e, adc) ==
    timerCallback([IsrView EXCEPT !.timerStatus = e], adc, clock, clock)

\* C7: in every reachable state, and for every reading, a tick taken with
\* timerStatus true and a tick taken with timerStatus false give the same
\* packet buffer (sequence byte incremented), the same dashboardMode and
\* lastSwitch, and bufferReady set; a tick leaves timerStatus alone; and no
\* step of the command interpreter changes the packet buffer, dashboardMode or
\* lastSwitch.
C7_TickIgnoresEnabled ==
    /\ [](\A adc \in TwoReadings :
            LET on == TickIf(TRUE, adc)
                off == TickIf(FALSE, adc)
            IN  /\ on = [off EXCEPT !.timerStatus = TRUE]
                /\ off.bufferReady
                /\ ~off.timerStatus
                /\ off.packetBuffer[2] = (packetBuffer[2] + 1) % 256)
    /\ [][TickStep =>
            /\ packetBuffer'[2] = (packetBuffer[2] + 1) % 256
            /\ bufferReady'
            /\ timerStatus' = timerStatus]_vars
    /\ [][CommandStep =>
            UNCHANGED <<packetBuffer, dashboardMode, lastSwitch>>]_vars

C7_Witness ==
    /\ lastCtl = "START"
    /\ outLast = Line("ACQ STARTED")
    /\ outCount = 7
    /\ ticks = 3
    /\ packetBuffer[2] = 3
    /\ dashboardMode = 1

\* ------------------------------------------------------------------------ C8
\* A buffer carries a sample above its threshold.
Crossing(buf) == Emg(buf) > 12000 \/ Eeg(buf) > 11000 \/ Eog(buf) > 10000

\* C8 as stated: two successive assignments of lastSwitch are at least 500 ms
\* of wall-clock time apart, and a tick that crosses a threshold at least
\* 500 ms of wall-clock time after the previous assignment makes the next one.
C8_DebounceWallClock ==
    [][TickStep =>
        /\ (switches' # switches /\ switches >= 1 => sinceSwitch >= 500)
        /\ (switches >= 1 /\ sinceSwitch >= 500 /\ Crossing(packetBuffer') =>
                switches' # switches)]_vars

\* C8 as amended: two successive assignments of lastSwitch are at least 500 ms
\* of wall-clock time apart, and a tick that crosses a threshold when at least
\* 500 ms have passed on the 32-bit millisecond clock since the previous
\* assignment (the elapsed time modulo 2^32 ms) makes the next one.
C8_Debounce ==
    [][TickStep =>
        /\ (switches' # switches /\ switches >= 1 => sinceSwitch >= 500)
        /\ (switches >= 1 /\ DebounceElapsed /\ Crossing(packetBuffer') =>
                switches' # switches)]_vars

C8_Witness == switches >= 2 /\ sinceSwitch = 0 /\ dashboardMode = 2

\* ------------------------------------------------------------------------ C9
\* C9: a tick taken when the debounce time has passed on the millisecond clock
\* leaves the mode EMG if the muscle sample is above 12000, else EEG if the
\* brain sample is above 11000, else EOG if the eye sample is above 10000, and
\* else leaves dashboardMode and lastSwitch as they were; a sample equal to
\* its threshold does not count.
C9_Priority ==
    [][TickStep /\ DebounceElapsed =>
        LET emg == Emg(packetBuffer')
            eeg == Eeg(packetBuffer')
            eog == Eog(packetBuffer')
        IN  IF emg > 12000 THEN dashboardMode' = 0
            ELSE IF eeg > 11000 THEN dashboardMode' = 1
            ELSE IF eog > 10000 THEN dashboardMode' = 2
            ELSE UNCHANGED <<dashboardMode, lastSwitch>>]_vars

C9_Witness ==
    /\ switches >= 2
    /\ sinceSwitch = 0
    /\ dashboardMode = 0
    /\ Emg(packetBuffer) = 12001
    /\ Eeg(packetBuffer) = 11001
    /\ Eog(packetBuffer) = 10001

\* ----------------------------------------------------------------------- C10
Known == {START, STOP, MODE, STATUS}

\* C10: processing a line that, trimmed and upper-cased, is none of START,
\* STOP, MODE, STATUS writes nothing and leaves timerStatus, bufferReady,
\* dashboardMode, lastSwitch and the packet buffer as they were.
C10_UnknownIgnored ==
    [][CommandStep /\ toUpperCase(trim(LineRead)) \notin Known =>
        UNCHANGED <<timerStatus, bufferReady, dashboardMode, lastSwitch,
                    packetBuffer, outLast, outCount, lastCtl>>]_vars

C10_Witness ==
    /\ hostSends >= 1
    /\ rx = <<>>
    /\ cmd = <<>>
    /\ pc = "loop"
    /\ outCount = 5
    /\ bufferReady

\* ----------------------------------------------------------------------- C11
\* The state a command may touch besides the output.
CommandState == <<timerStatus, bufferReady, dashboardMode, lastSwitch,
                  packetBuffer>>

\* C11: timerStatus is false at start-up and afterwards true exactly when the
\* most recently processed START or STOP was START; STATUS prints RUNNING when
\* timerStatus is true and STOPPED otherwise; START prints ACQ STARTED and STOP
\* prints ACQ STOPPED; MODE and STATUS print one line and change no state.
C11_Status ==
    /\ [](timerStatus <=> lastCtl = "START")
    /\ [][CommandStep =>
            LET n == toUpperCase(trim(LineRead))
            IN  /\ n = STATUS =>
                      /\ outLast' = Line(IF timerStatus THEN "RUNNING" ELSE "STOPPED")
                      /\ outCount' = outCount + 1
                      /\ UNCHANGED <<CommandState, lastCtl>>
                /\ n = MODE =>
                      /\ outLast' = updateDashboard(dashboardMode)
                      /\ outCount' = outCount + 1
                      /\ UNCHANGED <<CommandState, lastCtl>>
                /\ n = START =>
                      /\ outLast' = Line("ACQ STARTED")
                      /\ outCount' = outCount + 1
                      /\ timerStatus' /\ lastCtl' = "START"
                /\ n = STOP =>
                      /\ outLast' = Line("ACQ STOPPED")
                      /\ outCount' = outCount + 1
                      /\ ~timerStatus' /\ lastCtl' = "STOP"]_vars

C11_Witness ==
    /\ outLast = Line("RUNNING")
    /\ timerStatus
    /\ lastCtl = "START"
    /\ hostSends = 2

\* ----------------------------------------------------------------------- C12
\* C12: a line that spells START, STOP, MODE or STATUS in any letter case,
\* with or without white space before and after it, produces the output and
\* the state that the plain upper-case word produces.
C12_Insensitive ==
    [][CommandStep =>
        \A w \in Known :
            LineRead \in Decorated(w) =>
                LET r == processCommand(w, timerStatus, dashboardMode)
                IN  /\ r.out.kind = "line"
                    /\ outLast' = r.out
                    /\ outCount' = outCount + 1
                    /\ timerStatus' = r.timerStatus
                    /\ lastCtl' = (IF r.ctl = "none" THEN lastCtl ELSE r.ctl)
                    /\ UNCHANGED <<bufferReady, dashboardMode, lastSwitch,
                                   packetBuffer>>]_vars

\* START and then STATUS have been processed, neither spelt as the plain word.
C12_Witness ==
    /\ outLast = Line("RUNNING")
    /\ hostSends = 2
    /\ rx = <<>>
    /\ pc = "loop"
    /\ ticks = 1

\* ----------------------------------------------------------------------- C13
\* C13: a command is processed only when a complete line is available: a step
\* that processes START, STOP, MODE or STATUS finds the line terminator in
\* the bytes received; bytes without a terminator only wait.
C13_CompleteLineOnly ==
    [][CommandStep /\ toUpperCase(trim(LineRead)) \in Known =>
        \E k \in 1 .. Len(rx) : rx[k] = "\n"]_vars

\* ----------------------------------------------------------------------- C14
\* A packet write has just completed, and what was written is a framed
\* packet of PACKET_LEN bytes.
JustWritten ==
    /\ pc = "clear"
    /\ outLast.kind = "packet"
    /\ Len(outLast.data) = PACKET_LEN
    /\ outLast.data[1] = SYNC_BYTE_1
    /\ outLast.data[2] = SYNC_BYTE_2
    /\ outLast.data[PACKET_LEN] = END_BYTE

\* C14: with the timer acquired and acquisition enabled, under weak fairness
\* of the tick and of the main loop, whenever a packet is pending or a tick
\* can still fire, a framed packet of PACKET_LEN bytes beginning
\* SYNC_BYTE_1 SYNC_BYTE_2 and ending END_BYTE is eventually written, unless
\* a STOP is processed first; so packets are written for as long as ticks fire.
C14_PacketsKeepComing ==
    (timerOpen /\ timerStatus /\ (bufferReady \/ ticks < MaxLiveTicks))
        ~> (JustWritten \/ ~timerStatus)

\* The second packet has been written, after the second tick.
C14_Witness ==
    /\ JustWritten
    /\ ticks = 2
    /\ outLast.data[3] = 2
    /\ outCount = 8
    /\ timerStatus

\* ----------------------------------------------------------------------- C15
\* C15: whenever the main loop sets bufferReady to false, the packet in the
\* buffer is the one it has just written; it never clears a flag set by a
\* tick whose packet it did not transmit.
C15_ClearOnlyWritten ==
    [][bufferReady /\ ~bufferReady' =>
        outLast = Packet(AsSeq(packetBuffer))]_vars

\* ----------------------------------------------------------------------- C16
\* C16: every tick overwrites the one buffer with its own packet and leaves
\* bufferReady true whatever it was before; and every packet written is the
\* packet of the most recent completed tick, either as the buffer held it when
\* the sequence byte was copied or as it holds it when the write completes.
C16_LatestWins ==
    /\ [][TickStep =>
            /\ bufferReady'
            /\ packetBuffer'[2] = (packetBuffer[2] + 1) % 256]_vars
    /\ [][PacketWrite =>
            \/ outLast'.data = AsSeq(txSnap')
            \/ outLast'.data = AsSeq(packetBuffer')]_vars

\* ----------------------------------------------------------------------- C17
\* lastSwitch was taken in the last 2^16 ms before the clock wraps and the
\* clock is in the first 2^16 ms after a wrap; Gap is then the distance from
\* lastSwitch forward to the clock, in unbounded integers.
AcrossWrap == switches >= 1 /\ lastSwitch[1] = Half - 1 /\ clock[1] = 0
Gap == (Half - lastSwitch[2]) + clock[2]

\* C17: for a lastSwitch taken shortly before the clock wraps and a clock value
\* shortly after, millis() - lastSwitch is the distance from lastSwitch
\* forward to the clock, which is the time really elapsed whenever that time
\* is below 500 ms; and, up to 2^32 ms after lastSwitch, a tick assigns
\* lastSwitch exactly when the time really elapsed is at least 500 ms and a
\* sample is above its threshold.
C17_Wraparound ==
    /\ [](AcrossWrap =>
            /\ Sub32(clock, lastSwitch) = U32(Gap)
            /\ (sinceSwitch < 500 => Gap = sinceSwitch))
    /\ [][TickStep /\ AcrossWrap /\ (sinceSwitch < 500 \/ Gap >= 500) =>
            (switches' # switches <=>
                 sinceSwitch >= 500 /\ Crossing(packetBuffer'))]_vars

\* A second assignment of lastSwitch, made as the clock reads 0 again.
C17_Witness ==
    /\ switches = 2
    /\ sinceSwitch = 0
    /\ clock = <<0, 0>>
    /\ lastSwitch = <<0, 0>>
    /\ elapses = 2
    /\ dashboardMode = 1

\* ----------------------------------------------------------------------- C18
\* Serial.write copies the sequence byte; txSnap still is the buffer as it
\* was when the sequence byte of the previous packet was copied.
SeqCopy == pc = "send" /\ Len(tx) = 2 /\ Len(tx') = 3

\* C18: when a packet write completes, at least one tick has completed since
\* the previous packet write completed, and the sequence byte written differs
\* from the one of the previous packet (the ticks being fewer than 256 apart),
\* whatever commands were processed in between and wherever ticks preempt.
C18_AtMostOnce ==
    /\ [][PacketWrite /\ lastSent # NoPacket => lastSent = "ticked"]_vars
    /\ [][SeqCopy /\ lastSent # NoPacket => tx'[3] # txSnap[2]]_vars

\* Two packets have been written and three commands processed, START last
\* and an unterminated STOP among them.
C18_Witness ==
    /\ pc = "clear"
    /\ outLast.kind = "packet"
    /\ lastSent = "noticks"
    /\ outCount = 10
    /\ hostSends = 3
    /\ rx = <<>>
    /\ lastCtl = "START"
    /\ clock = U32(1000)

\* ----------------------------------------------------------------------- C19
\* C19: until the first assignment of lastSwitch the mode is EMG and
\* lastSwitch is 0; a tick taken less than 500 ms after start-up, when the
\* clock reads less than 500, changes neither, whatever the samples; and a
\* tick taken when the clock reads 500 with a sample above its threshold
\* makes the first assignment.
C19_StartupQuiet ==
    /\ [](switches = 0 => dashboardMode = 0 /\ lastSwitch = U32(0))
    /\ [](switches = 0 /\ sinceSwitch < 500 => clock = U32(sinceSwitch))
    /\ [][TickStep /\ switches = 0 /\ Less32(clock, 500) =>
            UNCHANGED <<dashboardMode, lastSwitch, switches>>]_vars
    /\ [][TickStep /\ switches = 0 /\ clock = U32(500)
                   /\ Crossing(packetBuffer') =>
            switches' = 1 /\ lastSwitch' \in {U32(500), U32(501)}]_vars

\* The first assignment, made at clock value 500 by the second tick or later.
C19_Witness ==
    /\ switches = 1
    /\ lastSwitch = U32(500)
    /\ clock = U32(500)
    /\ sinceSwitch = 0
    /\ ticks >= 2
    /\ dashboardMode = 2

\* ----------------------------------------------------------------------- C20
\* C20: a tick taken when the debounce time has passed on the millisecond
\* clock, with a sample above its threshold, assigns lastSwitch the current
\* clock value even when the mode it selects is the current mode; a tick taken
\* less than 500 ms after such an assignment leaves the mode as it is; and no
\* tick changes the mode without assigning lastSwitch.
C20_ResetOnReselect ==
    [][TickStep =>
        /\ (DebounceElapsed /\ Crossing(packetBuffer') =>
                /\ switches' = switches + 1
                /\ lastSwitch' = clock')
        /\ (switches >= 1 /\ sinceSwitch < 500 => dashboardMode' = dashboardMode)
        /\ (dashboardMode' # dashboardMode => switches' = switches + 1)]_vars

\* EMG was re-selected while the mode was EMG, and a tick with the brain
\* sample alone above its threshold, taken 499 ms later, has left it EMG.
C20_Witness ==
    /\ switches = 1
    /\ dashboardMode = 0
    /\ sinceSwitch = 499
    /\ Emg(packetBuffer) = 12000
    /\ Eeg(packetBuffer) = 11001
    /\ ticks >= 2

====
